---- MODULE Spec2Model ----
(***************************************************************************)
(* OGLight patcher (src/patcher.py): download -> validate_sha256 ->        *)
(* apply_patches (19 patches) -> save_file.                                 *)
(*                                                                         *)
(* A document (bytes or text) is a sequence of fragments; a fragment is a  *)
(* piece of text that the patcher's search strings never split.  Search    *)
(* and replacement strings are sequences of fragments, so that one search  *)
(* string can be a part of another (patch 14 inside patches 12 and 13) and *)
(* str.find / str.count / str.replace are computed by scanning, as CPython *)
(* does.                                                                   *)
(***************************************************************************)
EXTENDS Integers, Sequences, FiniteSets, TLC

VARIABLES pc, content, expected_sha, text, ruleIndex, report, patched_content,
          file, prior, exit_code, failure, calls, unit

vars == <<pc, content, expected_sha, text, ruleIndex, report, patched_content,
          file, prior, exit_code, failure, calls, unit>>

-----------------------------------------------------------------------------
(* Bounds *)

\* a fetched document is a concatenation of at most MaxParts chunks
MaxParts == 3
\* a text handed to a single unlimited rule is a concatenation of at most
\* MaxRuleParts chunks
MaxRuleParts == 3
\* A, middle and B of the block rule are concatenations of at most MaxSideParts
\* chunks each
MaxSideParts == 1

-----------------------------------------------------------------------------
(* Python str / bytes primitives on sequences of fragments (0-based indices) *)

\* text[a:b] for 0 <= a, b
Slice(s, a, b) == SubSeq(s, a + 1, IF b > Len(s) THEN Len(s) ELSE b)

\* does sub occur in s at 0-based index i
OccursAt(s, sub, i) ==
    /\ i >= 0
    /\ i + Len(sub) <= Len(s)
    /\ Slice(s, i, i + Len(sub)) = sub

\* a negative start counts from the end, as in a Python slice
NormStart(s, start) ==
    IF start < 0 THEN (IF Len(s) + start < 0 THEN 0 ELSE Len(s) + start) ELSE start

\* str.find(sub, start): lowest index >= start where sub occurs, else -1
Find(s, sub, start) ==
    LET from == NormStart(s, start)
        hits == {i \in from..Len(s) : OccursAt(s, sub, i)}
    IN  IF hits = {} THEN 0 - 1
        ELSE CHOOSE i \in hits : \A j \in hits : i <= j

\* sub in s
Contains(s, sub) == Find(s, sub, 0) # 0 - 1

RECURSIVE Count(_, _)
\* str.count(sub): occurrences found scanning left to right, resuming after each
Count(s, sub) ==
    LET i == Find(s, sub, 0)
    IN  IF i = 0 - 1 THEN 0
        ELSE 1 + Count(Slice(s, i + Len(sub), Len(s)), sub)

\* str.replace that stops after the first occurrence whatever the limit
ReplaceFirstOnly(s, old, new, maxcount) ==
    LET i == Find(s, old, 0)
    IN  IF maxcount = 0 \/ i = 0 - 1 THEN s
        ELSE Slice(s, 0, i) \o new \o Slice(s, i + Len(old), Len(s))

RECURSIVE Replace(_, _, _, _)
\* str.replace(old, new, maxcount); a negative maxcount replaces all
Replace(s, old, new, maxcount) ==
    LET i == Find(s, old, 0)
    IN  IF maxcount = 0 \/ i = 0 - 1 THEN s
        ELSE Slice(s, 0, i) \o new
             \o Replace(Slice(s, i + Len(old), Len(s)), old, new, maxcount - 1)

-----------------------------------------------------------------------------
(* Configuration (src/patcher.py lines 88-91) *)

WEBSTORE_URL == "https://update.greasyfork.org/scripts/514909/OGLight.user.js"
OUTPUT_FILE == "OGLight_Ninja.user.js"

-----------------------------------------------------------------------------
(* Fragments of the search and replacement strings of apply_patches.  The   *)
(* backquote of a JavaScript template literal is written ~ in a fragment.  *)

FILLER == "/* any other code */"
INVALID_UTF8 == "<byte 0xFF>"

HOST_URL == "https://${window.location.host}"
GAME_PATH == "/game/index.php"
NINJA_HOST == "${PROTOCOL}//${HOST}"
NINJA_PATH == "${window.location.pathname}"
API_NINJA == "${PROTOCOL}//${HOST}/api/s${universeNum}/${lang}"
GET_ITEM == "localStorage.getItem("
SET_ITEM == "localStorage.setItem("
UNIVERSE_PREFIX == "UNIVERSE+'-"
RANDOM_UUID == "crypto.randomUUID();"

userscript_marker == "// ==/UserScript=="
userscript_injection ==
    <<userscript_marker,
      "const urlMatch = ...; const UNIVERSE = ...; const PROTOCOL = ...; const HOST = ...; const PLAYER_ID = ...; const localStoragePrefix = ...;">>
uuid_replacement == <<"let uuid = ['xxxxxxxx-xxxx-4xxx-yxxx-xxxxxxxxxxxx'.replace(...), 0];">>
uid_polyfill == "'xxxxxxxx-xxxx-4xxx-yxxx-xxxxxxxxxxxx'.replace(...);"
start_marker == <<"// get the account ID in cookies">>
end_marker == <<"const accountID = cookieAccounts[cookieAccounts.length-1].replace(/\\D/g, '');">>
new_block ==
    <<"// get the account ID from meta tag (OGame Ninja adaptation)",
      "const accountMeta = ...; if(!accountMeta || !accountMeta.content) {...}",
      "const accountID = accountMeta.getAttribute('content').replace(/\\D/g, '');",
      "if(!accountID || accountID === '0') {...}">>
localStorage_keys ==
    <<"ogl-redirect", "ogl_minipics", "ogl_menulayout", "ogl_colorblind", "ogl_sidepanelleft">>

\* the search strings of patches 1, 4, 12 and 14
NAME_OLD == <<"@name            OGLight">>
PLAYER_LINK_OLD == <<"${player.name} <a href=\"", HOST_URL, GAME_PATH, "?page=highscore">>
GAME_URL_OLD == <<HOST_URL, GAME_PATH>>

\* "localStorage.getItem('key')" and "localStorage.setItem('key',"
GetOld(key) == <<GET_ITEM, "'", key, "')">>
GetNew(key) == <<GET_ITEM, UNIVERSE_PREFIX, key, "')">>
SetOld(key) == <<SET_ITEM, "'", key, "',">>
SetNew(key) == <<SET_ITEM, UNIVERSE_PREFIX, key, "',">>

-----------------------------------------------------------------------------
(* The steps of apply_patches, in program order *)

\* the count argument str.replace has when none is passed
Unlimited == 0 - 1

Cnt(old) == [op |-> "count", old |-> old, new |-> <<>>, limit |-> 0]
Rep(old, new, limit) == [op |-> "replace", old |-> old, new |-> new, limit |-> limit]

\* the loop body of patch 19 for one key: two counts, then two replaces
KeyOps(key) ==
    <<Cnt(GetOld(key)), Cnt(SetOld(key)),
      Rep(GetOld(key), GetNew(key), Unlimited),
      Rep(SetOld(key), SetNew(key), Unlimited)>>

RECURSIVE LoopOps(_)
LoopOps(keys) == IF keys = <<>> THEN <<>> ELSE KeyOps(Head(keys)) \o LoopOps(Tail(keys))

\* print is the form of the line the patch prints after its operations:
\*   "fixed" a constant line, "counts" a line with the counts,
\*   "keys" patch 19's per-key lines and total, "block" patch 15
Patches ==
  << \* 1
     [print |-> "fixed", ops |-> <<Rep(NAME_OLD, NAME_OLD \o <<" Ninja (CellMaster's Patcher)">>, 1)>>],
     \* 2
     [print |-> "fixed", ops |-> <<Rep(<<"// @match           https://*.ogame.gameforge.com/game/*\n">>,
                                       <<"// @match           *://*/bots/*/browser/html/*?page=*\n">>, 1)>>],
     \* 3
     [print |-> "fixed", ops |-> <<Rep(<<"// @downloadURL https://update.greasyfork.org/scripts/514909/OGLight.user.js\n">>, <<>>, 1),
                                   Rep(<<"// @updateURL https://update.greasyfork.org/scripts/514909/OGLight.meta.js\n">>, <<>>, 1)>>],
     \* 4
     [print |-> "fixed", ops |-> <<Rep(<<userscript_marker>>, userscript_injection, 1)>>],
     \* 5
     [print |-> "counts", ops |-> <<Cnt(GetOld("ogl-ptreTK")), Cnt(SetOld("ogl-ptreTK")),
                                    Rep(GetOld("ogl-ptreTK"), GetNew("ogl-ptreTK"), Unlimited),
                                    Rep(SetOld("ogl-ptreTK"), SetNew("ogl-ptreTK"), Unlimited)>>],
     \* 6
     [print |-> "fixed", ops |-> <<Rep(<<"this.server.id = window.location.host.replace(/\\D/g,'');">>,
                                       <<"this.server.id=document.querySelector('head meta[name=\"ogame-universe\"]').getAttribute('content').replace(/\\D/g,'');">>, 1)>>],
     \* 7
     [print |-> "fixed", ops |-> <<Rep(<<"this.account.lang = /oglocale=([a-z]+);/.exec(document.cookie)[1];">>,
                                       <<"this.account.lang=lang;">>, 1)>>],
     \* 8
     [print |-> "counts", ops |-> <<Rep(<<"let uuid = [crypto.randomUUID(), 0];">>, uuid_replacement, 1),
                                    Cnt(<<"item.uid = ", RANDOM_UUID>>),
                                    Rep(<<"item.uid = ", RANDOM_UUID>>, <<"item.uid = ", uid_polyfill>>, Unlimited)>>],
     \* 9
     [print |-> "fixed", ops |-> <<Rep(<<"url:~", HOST_URL, "/api/playerData.xml?id=${player.uid}~,">>,
                                       <<"url:~", API_NINJA, "/playerData.xml?id=${player.uid}~,">>, 1)>>],
     \* 10
     [print |-> "fixed", ops |-> <<Rep(<<"url:~", HOST_URL, "/api/serverData.xml~,">>,
                                       <<"url:~", API_NINJA, "/serverData.xml~,">>, 1)>>],
     \* 11
     [print |-> "fixed", ops |-> <<Rep(<<"return fetch(~", HOST_URL, "/api/players.xml~,">>,
                                       <<"return fetch(~", API_NINJA, "/players.xml~,">>, 1)>>],
     \* 12
     [print |-> "fixed", ops |-> <<Rep(PLAYER_LINK_OLD,
                                       <<"${player.name} <a href=\"", NINJA_HOST, NINJA_PATH, "?page=highscore">>, 1)>>],
     \* 13
     [print |-> "fixed", ops |-> <<Rep(<<"href:~", HOST_URL, GAME_PATH, "?page=componentOnly&component=messagedetails&messageId=${message.id}~">>,
                                       <<"href:~", NINJA_HOST, NINJA_PATH, "?page=componentOnly&component=messagedetails&messageId=${message.id}~">>, 1)>>],
     \* 14
     [print |-> "counts", ops |-> <<Cnt(GAME_URL_OLD), Rep(GAME_URL_OLD, <<NINJA_HOST, NINJA_PATH>>, Unlimited)>>],
     \* 15
     [print |-> "block", ops |-> <<>>],
     \* 16
     [print |-> "fixed", ops |-> <<Rep(<<"this.DBName = ~${accountID}-", "${window.location.host.split('.')[0]}~;">>,
                                       <<"this.DBName = ~${accountID}-", "${UNIVERSE}~;">>, 1)>>],
     \* 17
     [print |-> "fixed", ops |-> <<Rep(<<"galaxyUp: ", "window.location.host.split(/[-.]/)[1]", " == 'fr' ? 'z' : 'w',">>,
                                       <<"galaxyUp: ", "lang", " == 'fr' ? 'z' : 'w',">>, 1),
                                   Rep(<<"galaxyLeft: ", "window.location.host.split(/[-.]/)[1]", " == 'fr' ? 'q' : 'a',">>,
                                       <<"galaxyLeft: ", "lang", " == 'fr' ? 'q' : 'a',">>, 1)>>],
     \* 18
     [print |-> "fixed", ops |-> <<Rep(<<"// fix beta old DB if(!GM_getValue(this.DBName) && GM_getValue(window.location.host)) {...}">>,
                                       <<"// fix beta old DB - ADAPTED for OGame Ninja const oldHost = ...; if(!GM_getValue(this.DBName) && GM_getValue(oldHost)) {...}">>, 1)>>],
     \* 19
     [print |-> "keys", ops |-> LoopOps(localStorage_keys)]
  >>

\* "All 19 patches"
TotalPatches == Len(Patches)

-----------------------------------------------------------------------------
(* One patch of apply_patches as a function of the text *)

RECURSIVE RunOps(_, _, _)
\* the count and replace calls of one patch, in order; counts are taken on the
\* text as it is when the count call runs
RunOps(ops, t, counts) ==
    IF ops = <<>> THEN [text |-> t, counts |-> counts]
    ELSE LET o == Head(ops)
         IN  IF o.op = "count"
             THEN RunOps(Tail(ops), t, Append(counts, Count(t, o.old)))
             ELSE RunOps(Tail(ops), Replace(t, o.old, o.new, o.limit), counts)

RECURSIVE Sum(_)
Sum(ns) == IF ns = <<>> THEN 0 ELSE Head(ns) + Sum(Tail(ns))

RECURSIVE KeyLines(_, _)
\* patch 19: "- key: g get + s set", printed only when g + s > 0
KeyLines(counts, j) ==
    IF Len(counts) < 2 THEN <<>>
    ELSE (IF counts[1] + counts[2] > 0 THEN << <<j, counts[1], counts[2]>> >> ELSE <<>>)
         \o KeyLines(SubSeq(counts, 3, Len(counts)), j + 1)

\* what the lines printed for a patch show besides the constant wording
Shown(print, counts) ==
    IF print = "counts" THEN <<counts>>
    ELSE IF print = "keys" THEN KeyLines(counts, 1) \o << <<Sum(counts)>> >>
    ELSE <<>>

\* the "[+] Patch k/19: ..." line (with patch 19's key lines)
OkLine(k, counts) == [patch |-> k, status |-> "[+]", shown |-> Shown(Patches[k].print, counts)]
\* the "[!] Patch 15/19: FAILED - ..." lines
FailedLine(k, why) == [patch |-> k, status |-> "[!]", shown |-> << <<why>> >>]

\* a literal patch applied to the fetched content instead of the text so far
LiteralPatchOnOriginal(k, t) == RunOps(Patches[k].ops, content, <<>>)

\* patches 1-14 and 16-19
LiteralPatch(k, t) == RunOps(Patches[k].ops, t, <<>>)

\* patch 15, with old_block ending where the end marker starts
BlockPatchKeepEnd(t) ==
    LET start_idx == Find(t, start_marker, 0)
        end_idx   == Find(t, end_marker, start_idx)
        old_block == Slice(t, start_idx, end_idx)
    IN  IF start_idx = 0 - 1 \/ end_idx = 0 - 1
        THEN [ok |-> FALSE, why |-> "Could not find multi-session block!", text |-> t]
        ELSE IF Contains(t, old_block)
        THEN [ok |-> TRUE, why |-> "", text |-> Replace(t, old_block, new_block, 1)]
        ELSE [ok |-> FALSE, why |-> "Old text not found!", text |-> t]

\* patch 15, with the end marker searched from position 0 instead of start_idx
BlockPatchFromZero(t) ==
    LET start_idx == Find(t, start_marker, 0)
        end_idx   == Find(t, end_marker, 0)
        old_block == Slice(t, start_idx, end_idx + Len(end_marker))
    IN  IF start_idx = 0 - 1 \/ end_idx = 0 - 1
        THEN [ok |-> FALSE, why |-> "Could not find multi-session block!", text |-> t]
        ELSE IF Contains(t, old_block)
        THEN [ok |-> TRUE, why |-> "", text |-> Replace(t, old_block, new_block, 1)]
        ELSE [ok |-> FALSE, why |-> "Old text not found!", text |-> t]

\* patch 15: the marker-delimited block
BlockPatch(t) ==
    LET start_idx == Find(t, start_marker, 0)
        end_idx   == Find(t, end_marker, start_idx)
        old_block == Slice(t, start_idx, end_idx + Len(end_marker))
    IN  IF start_idx = 0 - 1 \/ end_idx = 0 - 1
        THEN [ok |-> FALSE, why |-> "Could not find multi-session block!", text |-> t]
        ELSE IF Contains(t, old_block)
        THEN [ok |-> TRUE, why |-> "", text |-> Replace(t, old_block, new_block, 1)]
        ELSE [ok |-> FALSE, why |-> "Old text not found!", text |-> t]

-----------------------------------------------------------------------------
(* Digest.  SHA-256 is replaced by a 4-bit checksum of the fragments; what    *)
(* is kept is that hexdigest() is a function of the bytes alone and is        *)
(* written with the lowercase digits 0-9a-f.                                  *)

DocFragments ==
    <<FILLER, INVALID_UTF8, NAME_OLD[1], userscript_marker, PLAYER_LINK_OLD[1],
      HOST_URL, GAME_PATH, PLAYER_LINK_OLD[4], start_marker[1], end_marker[1]>>

Code(f) == CHOOSE i \in 1..Len(DocFragments) : DocFragments[i] = f

RECURSIVE Checksum(_, _)
Checksum(bytes, i) ==
    IF i > Len(bytes) THEN 0
    ELSE (i * Code(bytes[i]) + Checksum(bytes, i + 1)) % 16

HexDigits == <<"0", "1", "2", "3", "4", "5", "6", "7", "8", "9", "a", "b", "c", "d", "e", "f">>
UpperDigits == <<"0", "1", "2", "3", "4", "5", "6", "7", "8", "9", "A", "B", "C", "D", "E", "F">>

\* hashlib.sha256(content).hexdigest()
Sha256Hex(bytes) == HexDigits[Checksum(bytes, 1) + 1]

\* str.lower() of a one-digit hex string
Lower(d) == IF \E i \in 1..16 : UpperDigits[i] = d
            THEN HexDigits[CHOOSE i \in 1..16 : UpperDigits[i] = d]
            ELSE d

\* validate_sha256 without its test
DigestMismatchNever(actual_sha, expected) == FALSE

\* the test of validate_sha256 with both sides lowercased first
DigestMismatchNormalized(actual_sha, expected) == Lower(actual_sha) # Lower(expected)

\* the test of validate_sha256: actual_sha != expected_sha
DigestMismatch(actual_sha, expected) == actual_sha # expected

\* bytes.decode('utf-8') raises UnicodeDecodeError
DecodeFails(bytes) == \E i \in 1..Len(bytes) : bytes[i] = INVALID_UTF8

-----------------------------------------------------------------------------
(* Inputs of a run *)

\* the pieces a fetched document is put together from
RunChunks ==
    { <<FILLER>>, <<INVALID_UTF8>>, NAME_OLD, <<userscript_marker>>,
      PLAYER_LINK_OLD, GAME_URL_OLD, start_marker, end_marker }

RECURSIVE Concats(_, _)
\* all concatenations of at most n chunks
Concats(chunks, n) ==
    IF n = 0 THEN {<<>>}
    ELSE LET shorter == Concats(chunks, n - 1)
         IN  shorter \cup {d \o c : d \in shorter, c \in chunks}

\* what the server can send
Docs == Concats(RunChunks, MaxParts)

\* values EXPECTED_SHA256 can be configured to
ExpectedDigests == {HexDigits[i] : i \in 1..16} \cup {UpperDigits[i] : i \in 1..16}

\* what OUTPUT_FILE holds before the run
PriorFiles == {<<>>, <<"// ==UserScript== (output of an earlier run)">>}

MainUnit == [name |-> "main"]

-----------------------------------------------------------------------------
(* main() *)

Init ==
    /\ pc = "download_file"
    /\ content = <<>>
    /\ expected_sha \in ExpectedDigests
    /\ text = <<>>
    /\ ruleIndex = 0
    /\ report = <<>>
    /\ patched_content = <<>>
    /\ prior \in PriorFiles
    /\ file = prior
    /\ exit_code = <<>>
    /\ failure = <<>>
    /\ calls = <<>>
    /\ unit = MainUnit

\* sys.exit(code), or an exception nobody catches (status 1)
Exit(code, why) ==
    /\ pc' = "exit"
    /\ exit_code' = <<code>>
    /\ failure' = why

\* download_file: the request succeeds
DownloadOk ==
    /\ pc = "download_file"
    /\ \E c \in Docs : content' = c
    /\ pc' = "validate_sha256"
    /\ calls' = Append(calls, "download_file")
    /\ UNCHANGED <<expected_sha, text, ruleIndex, report, patched_content, file,
                   prior, exit_code, failure, unit>>

\* download_file: requests raises RequestException
DownloadError ==
    /\ pc = "download_file"
    /\ Exit(1, <<"download_file">>)
    /\ calls' = Append(calls, "download_file")
    /\ UNCHANGED <<content, expected_sha, text, ruleIndex, report, patched_content,
                   file, prior, unit>>

\* validate_sha256
ValidateSha256 ==
    /\ pc = "validate_sha256"
    /\ calls' = Append(calls, "validate_sha256")
    /\ LET actual_sha == Sha256Hex(content)
       IN  IF DigestMismatch(actual_sha, expected_sha)
           THEN Exit(1, <<"validate_sha256">>)
           ELSE /\ pc' = "apply_patches"
                /\ UNCHANGED <<exit_code, failure>>
    /\ UNCHANGED <<content, expected_sha, text, ruleIndex, report, patched_content,
                   file, prior, unit>>

\* the rule that follows rule i, skipping one
SkipRule(i) == i + 2

\* the rule that follows rule i
NextRule(i) == i + 1

\* apply_patches, up to the decode
Decode ==
    /\ pc = "apply_patches"
    /\ calls' = Append(calls, "apply_patches")
    /\ IF DecodeFails(content)
       THEN /\ Exit(1, <<"decode">>)
            /\ UNCHANGED <<text, ruleIndex>>
       ELSE /\ text' = content
            /\ ruleIndex' = NextRule(0)
            /\ pc' = "patch"
            /\ UNCHANGED <<exit_code, failure>>
    /\ UNCHANGED <<content, expected_sha, report, patched_content, file, prior, unit>>

\* a patch made of replace calls; it prints a constant line
ApplyFixedPatch ==
    /\ pc = "patch"
    /\ ruleIndex \in 1..TotalPatches
    /\ Patches[ruleIndex].print = "fixed"
    /\ LET r == LiteralPatch(ruleIndex, text)
       IN  /\ text' = r.text
           /\ report' = Append(report, OkLine(ruleIndex, r.counts))
    /\ ruleIndex' = NextRule(ruleIndex)
    /\ UNCHANGED <<pc, content, expected_sha, patched_content, file, prior,
                   exit_code, failure, calls, unit>>

\* a patch that counts occurrences before it replaces and prints the counts
ApplyCountedPatch ==
    /\ pc = "patch"
    /\ ruleIndex \in 1..TotalPatches
    /\ Patches[ruleIndex].print \in {"counts", "keys"}
    /\ LET r == LiteralPatch(ruleIndex, text)
       IN  /\ text' = r.text
           /\ report' = Append(report, OkLine(ruleIndex, r.counts))
    /\ ruleIndex' = NextRule(ruleIndex)
    /\ UNCHANGED <<pc, content, expected_sha, patched_content, file, prior,
                   exit_code, failure, calls, unit>>

\* patch 15
ApplyBlockPatch ==
    /\ pc = "patch"
    /\ ruleIndex \in 1..TotalPatches
    /\ Patches[ruleIndex].print = "block"
    /\ LET r == BlockPatch(text)
       IN  IF r.ok
           THEN /\ text' = r.text
                /\ report' = Append(report, OkLine(ruleIndex, <<>>))
                /\ ruleIndex' = NextRule(ruleIndex)
                /\ UNCHANGED <<pc, exit_code, failure>>
           ELSE /\ report' = Append(report, FailedLine(ruleIndex, r.why))
                /\ Exit(1, <<"patch", ruleIndex>>)
                /\ UNCHANGED <<text, ruleIndex>>
    /\ UNCHANGED <<content, expected_sha, patched_content, file, prior, calls, unit>>

\* apply_patches: "All 19 patches applied successfully!", return text.encode('utf-8')
ReturnPatched ==
    /\ pc = "patch"
    /\ ruleIndex = TotalPatches + 1
    /\ patched_content' = text
    /\ pc' = "save_file"
    /\ UNCHANGED <<content, expected_sha, text, ruleIndex, report, file, prior,
                   exit_code, failure, calls, unit>>

\* save_file writes everything; main prints the closing lines and returns
SaveOk ==
    /\ pc = "save_file"
    /\ calls' = Append(calls, "save_file")
    /\ file' = patched_content
    /\ Exit(0, <<>>)
    /\ UNCHANGED <<content, expected_sha, text, ruleIndex, report, patched_content,
                   prior, unit>>

\* save_file: open() raises, the file is as before
SaveOpenError ==
    /\ pc = "save_file"
    /\ calls' = Append(calls, "save_file")
    /\ Exit(1, <<"save_file">>)
    /\ UNCHANGED <<content, expected_sha, text, ruleIndex, report, patched_content,
                   file, prior, unit>>

\* save_file: open(.., 'wb') truncated the file, then write or close raises
SaveWriteError ==
    /\ pc = "save_file"
    /\ calls' = Append(calls, "save_file")
    /\ \E n \in 0..Len(patched_content) : file' = SubSeq(patched_content, 1, n)
    /\ Exit(1, <<"save_file">>)
    /\ UNCHANGED <<content, expected_sha, text, ruleIndex, report, patched_content,
                   prior, unit>>

Next ==
    \/ DownloadOk
    \/ DownloadError
    \/ ValidateSha256
    \/ Decode
    \/ ApplyFixedPatch
    \/ ApplyCountedPatch
    \/ ApplyBlockPatch
    \/ ReturnPatched
    \/ SaveOk
    \/ SaveOpenError
    \/ SaveWriteError

Spec == Init /\ [][Next]_vars

-----------------------------------------------------------------------------
(* A single replace-all rule of the pipeline, applied twice                  *)
(* (patch 5, 8b, 14 and the loop body of patch 19)                          *)

\* the replace calls that pass no count
UnlimitedRules ==
    UNION { {Patches[k].ops[j] :
                j \in {i \in 1..Len(Patches[k].ops) :
                          /\ Patches[k].ops[i].op = "replace"
                          /\ Patches[k].ops[i].limit = Unlimited}} :
            k \in 1..TotalPatches }

\* texts for one rule: its search string, its replacement, the fragments of the
\* search string on their own, and other code
RuleChunks(rule) ==
    {rule.old, rule.new, <<FILLER>>} \cup {<<rule.old[i]>> : i \in 1..Len(rule.old)}

RuleTexts(rule) == Concats(RuleChunks(rule), MaxRuleParts)

InitRule ==
    /\ pc = "rule"
    /\ \E rule \in UnlimitedRules :
          /\ unit = [name |-> "rule", rule |-> rule]
          /\ content \in RuleTexts(rule)
    /\ text = content
    /\ expected_sha = ""
    /\ ruleIndex = 0
    /\ report = <<>>
    /\ patched_content = <<>>
    /\ prior = <<>>
    /\ file = <<>>
    /\ exit_code = <<>>
    /\ failure = <<>>
    /\ calls = <<>>

\* count = text.count(old); text = text.replace(old, new); print(count)
\* patched_content keeps the text the rule was applied to
ApplyRule ==
    /\ pc \in {"rule", "again"}
    /\ LET r == RunOps(<<Cnt(unit.rule.old), unit.rule>>, text, <<>>)
       IN  /\ text' = r.text
           /\ report' = Append(report, r.counts)
    /\ patched_content' = text
    /\ pc' = IF pc = "rule" THEN "again" ELSE "done"
    /\ UNCHANGED <<content, expected_sha, ruleIndex, file, prior, exit_code,
                   failure, calls, unit>>

SpecRule == InitRule /\ [][ApplyRule]_vars

\* the positions at which sub occurs in s
Occ(s, sub) == {i \in 0..Len(s) : OccursAt(s, sub, i)}

\* no two occurrences of sub in s overlap
NonOverlapping(s, sub) ==
    \A i, j \in Occ(s, sub) : i < j => i + Len(sub) <= j

\* C7: an unlimited literal rule applied to a text with exactly K non-overlapping
\* occurrences of its search string reports K and replaces K occurrences (none
\* is left, K replacements appear, the length changes by K times the
\* difference); applied again to its own output it reports 0 and changes nothing.
C7_IdempotentRuleReporting ==
    (unit.name = "rule" /\ pc \in {"again", "done"} /\ NonOverlapping(content, unit.rule.old)) =>
        LET old == unit.rule.old
            new == unit.rule.new
            K   == Cardinality(Occ(content, old))
            out == IF pc = "again" THEN text ELSE patched_content
        IN  /\ report[1] = <<K>>
            /\ Occ(out, old) = {}
            /\ Cardinality(Occ(out, new)) = Cardinality(Occ(content, new)) + K
            /\ Len(out) = Len(content) + K * (Len(new) - Len(old))
            /\ pc = "done" => (report[2] = <<0>> /\ text = out)

\* a rule has replaced two occurrences and has run a second time
C7_Witness ==
    /\ unit.name = "rule"
    /\ pc = "done"
    /\ Cardinality(Occ(content, unit.rule.old)) = 2
    /\ report = << <<2>>, <<0>> >>
    /\ text # content

-----------------------------------------------------------------------------
(* The block rule (patch 15) on A + START + middle + END + B                 *)

SideChunks == { <<FILLER>>, <<"\n">>, start_marker, end_marker }

Sides == Concats(SideChunks, MaxSideParts)

InitBlock ==
    /\ pc = "block"
    /\ \E A \in Sides, middle \in Sides, B \in Sides :
          /\ unit = [name |-> "block", A |-> A, middle |-> middle, B |-> B]
          /\ content = A \o start_marker \o middle \o end_marker \o B
    /\ text = content
    /\ expected_sha = ""
    /\ ruleIndex = 0
    /\ report = <<>>
    /\ patched_content = <<>>
    /\ prior = <<>>
    /\ file = <<>>
    /\ exit_code = <<>>
    /\ failure = <<>>
    /\ calls = <<>>

\* lines 262-303 applied to text
ApplyBlockRule ==
    /\ pc = "block"
    /\ LET r == BlockPatch(text)
       IN  /\ text' = r.text
           /\ report' = Append(report, IF r.ok THEN "[+]" ELSE "[!]")
    /\ pc' = "done"
    /\ UNCHANGED <<content, expected_sha, ruleIndex, patched_content, file, prior,
                   exit_code, failure, calls, unit>>

SpecBlock == InitBlock /\ [][ApplyBlockRule]_vars

\* START occurs first at the end of A, and END occurs first, searching from that
\* START, right after middle
MarkersFirst(A, middle) ==
    /\ Find(A \o start_marker, start_marker, 0) = Len(A)
    /\ Find(start_marker \o middle \o end_marker, end_marker, 0)
          = Len(start_marker) + Len(middle)

\* C6: on A + START + middle + END + B with START first at the end of A and END
\* first after middle, the block rule succeeds and the text becomes
\* A + new_block + B.
C6_BlockExtraction ==
    (unit.name = "block" /\ pc = "done" /\ MarkersFirst(unit.A, unit.middle)) =>
        /\ report = <<"[+]">>
        /\ text = unit.A \o new_block \o unit.B

\* the block rule has run on a text whose A holds an end marker and whose B holds
\* a start marker
C6_Witness ==
    /\ unit.name = "block"
    /\ pc = "done"
    /\ MarkersFirst(unit.A, unit.middle)
    /\ unit.A = end_marker
    /\ unit.middle # <<>>
    /\ unit.B = start_marker
    /\ text = end_marker \o new_block \o start_marker

-----------------------------------------------------------------------------
(* Properties of a run (specification Spec) *)

InCalls(f) == \E i \in 1..Len(calls) : calls[i] = f

\* patch k as a function of the text (a failed block patch leaves it as it is)
PatchText(k, t) ==
    IF Patches[k].print = "block" THEN BlockPatch(t).text
    ELSE RunOps(Patches[k].ops, t, <<>>).text

RECURSIVE TextBefore(_, _)
\* the text patch k is applied to when the run starts from t0: patches 1..k-1
\* applied in order
TextBefore(k, t0) ==
    IF k <= 1 THEN t0
    ELSE CHOOSE r \in {PatchText(k - 1, t) : t \in {TextBefore(k - 1, t0)}} : TRUE

RECURSIVE OpsFound(_, _)
\* every replace call of ops finds its search string in the text it is called on
OpsFound(ops, t) ==
    IF ops = <<>> THEN TRUE
    ELSE LET o == Head(ops)
         IN  IF o.op = "replace"
             THEN Contains(t, o.old) /\ OpsFound(Tail(ops), Replace(t, o.old, o.new, o.limit))
             ELSE OpsFound(Tail(ops), t)

RECURSIVE OpsFoundNone(_, _)
\* no replace call of ops finds its search string
OpsFoundNone(ops, t) ==
    IF ops = <<>> THEN TRUE
    ELSE LET o == Head(ops)
         IN  IF o.op = "replace"
             THEN ~Contains(t, o.old) /\ OpsFoundNone(Tail(ops), t)
             ELSE OpsFoundNone(Tail(ops), t)

\* the patches that print a constant "done" line
FixedPatches == {k \in 1..TotalPatches : Patches[k].print = "fixed"}
\* the patches made of count and replace calls
LiteralPatches == {k \in 1..TotalPatches : Patches[k].print # "block"}
BlockIndex == CHOOSE k \in 1..TotalPatches : Patches[k].print = "block"

\* patch k has been reached in this run (it printed its line)
Reached(k) == Len(report) >= k

\* C1: once validate_sha256 has run on bytes whose digest differs from the
\* expected digest, the run has ended with status 1 at validate_sha256 and
\* apply_patches has not been called: no text, no report line, no output.
C1_DigestGate ==
    (InCalls("validate_sha256") /\ Sha256Hex(content) # expected_sha) =>
        /\ pc = "exit"
        /\ exit_code = <<1>>
        /\ failure = <<"validate_sha256">>
        /\ ~InCalls("apply_patches")
        /\ ~InCalls("save_file")
        /\ text = <<>>
        /\ report = <<>>

\* a run stopped by a digest mismatch on a document that every patch could apply to
C1_Witness ==
    /\ pc = "exit"
    /\ failure = <<"validate_sha256">>
    /\ Sha256Hex(content) # expected_sha
    /\ Contains(content, start_marker)
    /\ Contains(content, end_marker)
    /\ calls = <<"download_file", "validate_sha256">>

\* C2: a run that failed at the integrity check or at a patch never called
\* save_file and left the destination as it was; and whenever save_file is
\* called the digest matched and the 19 patches have all printed their "[+]" line.
C2_NoOutputOnFailure ==
    /\ (pc = "exit" /\ failure # <<>> /\ failure[1] \in {"validate_sha256", "patch"}) =>
          (~InCalls("save_file") /\ file = prior)
    /\ (InCalls("save_file") \/ file # prior) =>
          /\ Sha256Hex(content) = expected_sha
          /\ Len(report) = TotalPatches
          /\ \A k \in 1..TotalPatches : report[k].patch = k /\ report[k].status = "[+]"
          /\ patched_content = text

\* a run that failed at patch 15 with an earlier output file in place
C2_Witness ==
    /\ pc = "exit"
    /\ failure = <<"patch", BlockIndex>>
    /\ prior # <<>>
    /\ file = prior
    /\ text # content

\* the rules taken as required: the block rule, and the literal patches that
\* print a constant line saying the change was made (C4)
RequiredPatches == FixedPatches \cup {BlockIndex}

\* rule k found its target in the run that started from the fetched content
FoundTarget(k) ==
    LET t == TextBefore(k, content)
    IN  IF k = BlockIndex THEN BlockPatch(t).ok ELSE OpsFound(Patches[k].ops, t)

\* C3: a finished run has status 0 exactly when the fetch succeeded, the digest
\* matched, every required patch rule found its target and the output was
\* written; otherwise its status is not 0.
C3_ExitContract ==
    pc = "exit" =>
        /\ exit_code \in {<<0>>, <<1>>}
        /\ exit_code = <<0>> <=>
              /\ InCalls("validate_sha256")
              /\ Sha256Hex(content) = expected_sha
              /\ \A k \in RequiredPatches : FoundTarget(k)
              /\ InCalls("save_file") /\ failure = <<>> /\ file = patched_content

\* C4: when a required literal rule is reached and its search string is absent,
\* the run has failed at that rule: status 1, failure naming the rule, no line
\* of a later rule, nothing written.
C4_RequiredRuleFailFast ==
    \A k \in FixedPatches :
        (Reached(k) /\ ~FoundTarget(k)) =>
            /\ pc = "exit"
            /\ exit_code = <<1>>
            /\ failure = <<"patch", k>>
            /\ Len(report) = k
            /\ ~InCalls("save_file")
            /\ file = prior

\* the block rule's markers are not both found: no start marker, or no end
\* marker at or after the first start marker
BlockMissing(t) ==
    LET starts == Occ(t, start_marker)
    IN  \/ starts = {}
        \/ \A j \in Occ(t, end_marker) : \E i \in starts : j < i /\ \A h \in starts : i <= h

\* C5: when patch 15 is reached and the start marker does not occur, or the end
\* marker does not occur at or after the first start marker, the run has failed
\* at patch 15: status 1, a FAILED line for patch 15 as the last line, the text
\* as patch 14 left it, no line of patches 16 to 19 and nothing written.
C5_BlockNotFoundFailFast ==
    (Reached(BlockIndex) /\ BlockMissing(TextBefore(BlockIndex, content))) =>
        /\ pc = "exit"
        /\ exit_code = <<1>>
        /\ failure = <<"patch", BlockIndex>>
        /\ Len(report) = BlockIndex
        /\ report[BlockIndex].status = "[!]"
        /\ text = TextBefore(BlockIndex, content)
        /\ patched_content = <<>>
        /\ ~InCalls("save_file")
        /\ file = prior

\* a run that failed at patch 15 on a text whose only end marker is before the
\* start marker
C5_Witness ==
    /\ pc = "exit"
    /\ failure = <<"patch", BlockIndex>>
    /\ Contains(text, start_marker)
    /\ Contains(text, end_marker)
    /\ Find(text, end_marker, 0) < Find(text, start_marker, 0)
    /\ Len(report) = BlockIndex

\* the rule index moves by single steps forward
ForwardOnly == ruleIndex' = ruleIndex \/ ruleIndex' = ruleIndex + 1

\* while patching and after: the lines printed are those of patches 1, 2, ...
\* in order, one each, the rule index is just past the last patch that
\* succeeded, and the text is the result of the patches so far applied in
\* order to the decoded content
Cumulative ==
    (unit.name = "main" /\ ruleIndex >= 1) =>
        /\ \A i \in 1..Len(report) : report[i].patch = i
        /\ Len(report) = (IF failure # <<>> /\ failure[1] = "patch" THEN ruleIndex ELSE ruleIndex - 1)
        /\ ruleIndex <= TotalPatches + 1
        /\ text = TextBefore(ruleIndex, content)

\* C8: the patches are applied one at a time in the order 1 to 19, each once
\* and each to the text the patch before it produced; the rule index only
\* moves forward, one rule at a time.
C8_Ordering == [](Cumulative) /\ [][ForwardOnly]_vars

\* patch 14 counted no game URL because patch 12 had already rewritten the only
\* one, and the patches after it have run too
C8_Witness ==
    /\ unit.name = "main"
    /\ ruleIndex = TotalPatches + 1
    /\ Count(content, GAME_URL_OLD) = 1
    /\ Contains(content, PLAYER_LINK_OLD)
    /\ report[14].shown = << <<0>> >>
    /\ Contains(text, <<NINJA_HOST, NINJA_PATH>>)

\* expected differs from actual at most in the case of its letters
SameUpToCase(actual_sha, expected) == Lower(expected) = Lower(actual_sha)

\* C9 as stated: an expected digest equal to the computed one up to letter case
\* is accepted by validate_sha256.
C9_CaseNormalized ==
    (InCalls("validate_sha256") /\ SameUpToCase(Sha256Hex(content), expected_sha)) =>
        failure # <<"validate_sha256">>

\* C9 amended: validate_sha256 accepts exactly when the expected digest is the
\* computed lowercase digest character for character; an expected digest that
\* differs from it in letter case only is rejected.
C9_ExactComparison ==
    InCalls("validate_sha256") =>
        /\ (failure # <<"validate_sha256">>) <=> (expected_sha = Sha256Hex(content))
        /\ (SameUpToCase(Sha256Hex(content), expected_sha) /\ expected_sha # Sha256Hex(content))
              => (pc = "exit" /\ exit_code = <<1>> /\ failure = <<"validate_sha256">>)

\* a run rejected although the expected digest is the computed one in capitals
C9_Witness ==
    /\ pc = "exit"
    /\ failure = <<"validate_sha256">>
    /\ SameUpToCase(Sha256Hex(content), expected_sha)
    /\ expected_sha # Sha256Hex(content)

\* the line patch k prints when its search strings are all there once
FoundLine(k) ==
    LET ops  == Patches[k].ops
        seen == CHOOSE t \in {o.old : o \in {ops[i] : i \in 1..Len(ops)}} : TRUE
    IN  OkLine(k, LiteralPatch(k, seen).counts)

\* C10: a literal rule that is reached and finds none of its search strings does
\* not stop the run, and the line it prints differs from the line it prints
\* when it found and replaced an occurrence.
C10_ZeroMatchReporting ==
    \A k \in LiteralPatches :
        (Reached(k) /\ OpsFoundNone(Patches[k].ops, TextBefore(k, content))) =>
            /\ ~(pc = "exit" /\ failure = <<"patch", k>>)
            /\ report[k] # FoundLine(k)

====
